---- MODULE Spec2Model ----
(***************************************************************************)
(* Model of graphrest.GraphSession: the OAuth 2.0 authorization-code       *)
(* session (login, callback, token save, refresh, silent SSO, state.json). *)
(*                                                                         *)
(* Representation of Python values:                                        *)
(*   None            the string None ("<None>")                           *)
(*   True / False    TRUE / FALSE in the state, "True"/"False" as returns  *)
(*   time.time()     the integer clock `now` (seconds); a call reads it    *)
(*                   as s.now, and token_seconds(), which reads it twice,  *)
(*                   finds it s.late seconds further at the second read;   *)
(*                   time passes during these calls and between calls      *)
(*   str(uuid4())    "uuid1", "uuid2", ...: each call yields a new value   *)
(*   a URL           the sequence <<address, <<key, value>>, ...>> of its  *)
(*                   address and (decoded) query parameters; '' is <<>>    *)
(*   state.json      `file`: <<>> when the file does not exist, <<text>>   *)
(*                   when it does, text being the JSON object as the       *)
(*                   sequence of its <<key, value>> members                *)
(*   a Response      [ok |-> status < 400, json |-> the parsed body]       *)
(* A method is an operator from a frame `s` (the object's attributes, the  *)
(* file, the clock, the token endpoint's pending answers, the requests     *)
(* sent and answers received, the pending exception and the return value)  *)
(* to the frame after the call.  A raised exception is carried in s.exc    *)
(* and skips the rest of every caller.                                     *)
(***************************************************************************)
EXTENDS Integers, Sequences, FiniteSets, TLC

VARIABLES config, state, authstate, login_redirect, file, now, uuids, last

vars == <<config, state, authstate, login_redirect, file, now, uuids, last>>

(* ------------------------------ bounds --------------------------------- *)
\* longest list of scopes passed to the constructor
MaxScopes == 2
\* longest run of token-endpoint answers one call can draw on
MaxResp == 2
\* the clock stops here
MaxTime == 2
\* number of nonces login() may generate
MaxLogins == 2
\* longest time (seconds) that passes between the two clock reads of one
\* token_seconds() call
MaxLate == 2

(* ----------------------------- constants ------------------------------- *)
None == "<None>"
NoExc == ""
RefreshScope == "offline_access"
\* default of token_validation's nseconds
NSecondsDefault == 5
ClientId == "client"
ClientSecret == "secret"
RedirectUri == "http://localhost:5000/login/authorized"
AuthEndpoint == "https://login.microsoftonline.com/common/oauth2/v2.0/authorize"
TokenEndpoint == "https://login.microsoftonline.com/common/oauth2/v2.0/token"

\* bool(x) of a token value: None and '' are false
Truthy(x) == x # None /\ x # ""

(* --------------------------- input domains ----------------------------- *)
ScopeNames == {RefreshScope, "User.Read"}
ScopeLists == UNION {[1..n -> ScopeNames] : n \in 0..MaxScopes}
\* the scopes the sample application asks for
AppScopes == <<"User.Read">>
AccessTokens == {"AT1", "AT2"}
RefreshTokens == {"RT1"}
\* the lifetime (expires_in) the endpoint gives each access token: one longer
\* and one shorter than token_validation's default threshold
Lifetime(a) == IF a = "AT1" THEN NSecondsDefault + 1 ELSE 1
GrantedScope == "User.Read"
Routes == {"/"}
AuthCode == "code1"

\* token-endpoint answers without an access token: HTTP 400, or 200
Refusal == [ok |-> FALSE, json |-> [error |-> "invalid_grant"]]
FailResponses == {Refusal, [Refusal EXCEPT !.ok = TRUE]}
\* well-formed token answers, with and without a refresh token
TokenResponses ==
    {[ok |-> TRUE,
      json |-> [access_token |-> a, expires_in |-> Lifetime(a),
                scope |-> GrantedScope]] : a \in AccessTokens}
    \cup
    {[ok |-> TRUE,
      json |-> [access_token |-> a, expires_in |-> Lifetime(a),
                scope |-> GrantedScope, refresh_token |-> r]] :
        a \in AccessTokens, r \in RefreshTokens}
Responses == FailResponses \cup TokenResponses

\* The answers the token endpoint gives to the successive requests of one
\* call; after the last one it keeps giving that one.  No request follows a
\* request that was answered with a token, so only the last answer may be
\* one.  The HTTP status of an answer is read by redirect_uri_handler alone,
\* and of the answer to its own request, the first: every other answer
\* without a token comes as HTTP 400.
ResponseRuns(first) ==
    UNION {{r \in [1..n -> Responses] :
              /\ r[1] \in first
              /\ \A i \in 2..n : r[i] \in TokenResponses \cup {Refusal}
              /\ \A i \in 1..(n-1) : r[i] \in FailResponses} :
           n \in 1..MaxResp}
\* the answers to refresh requests, and to a callback's requests
RefreshRuns == ResponseRuns(TokenResponses \cup {Refusal})
CallbackRuns == ResponseRuns(Responses)

\* Uuid, were uuid4() to yield the same value at every call
UuidRepeated(n) == "uuid1"

\* str(uuid.uuid4()): the n-th value generated
Uuid(n) == "uuid" \o ToString(n)

\* the `state` parameter of a callback: absent, a value login() issued, or
\* one it never issued
QueryStates == {"", "forged"} \cup {Uuid(n) : n \in 1..MaxLogins}

(* ------------------------------ helpers -------------------------------- *)
\* ' '.join(list)
RECURSIVE Join(_)
Join(list) ==
    IF list = <<>> THEN ""
    ELSE IF Len(list) = 1 THEN list[1]
    ELSE list[1] \o " " \o Join(Tail(list))

\* x in list
In(x, list) == \E i \in 1..Len(list) : list[i] = x

\* list.remove(x): removes the first occurrence
Remove(list, x) ==
    LET i == CHOOSE j \in 1..Len(list) :
                 list[j] = x /\ \A k \in 1..(j-1) : list[k] # x
    IN  SubSeq(list, 1, i-1) \o SubSeq(list, i+1, Len(list))

\* endpoint + '?' + urllib.parse.urlencode(params)
Url(address, params) == <<address>> \o params

\* the value of query parameter `key` of a URL ('' when it has none)
UrlParam(url, key) ==
    IF \E i \in 2..Len(url) : url[i][1] = key
    THEN url[CHOOSE i \in 2..Len(url) : url[i][1] = key][2]
    ELSE ""

\* initialized_state of state_manager, and the order of its keys
StateKeys == <<"access_token", "refresh_token", "token_expires_at",
               "authorization_url", "token_scope", "loggedin">>
initialized_state ==
    [access_token |-> None, refresh_token |-> None, token_expires_at |-> 0,
     authorization_url |-> <<>>, token_scope |-> "", loggedin |-> FALSE]

\* json_dumps, were the logged-in flag left out of the record
DumpsWithoutLoggedin(d, keys) ==
    LET kept == SelectSeq(keys, LAMBDA k : k # "loggedin")
    IN  [i \in 1..Len(kept) |-> <<kept[i], d[kept[i]]>>]

\* json.dumps({key: d[key] for key in keys})
json_dumps(d, keys) == [i \in 1..Len(keys) |-> <<keys[i], d[keys[i]]>>]

\* json.loads(text): the dict of the object's members
json_loads(text) ==
    [k \in {text[i][1] : i \in 1..Len(text)} |->
        text[CHOOSE i \in 1..Len(text) : text[i][1] = k][2]]

\* d.update(e)
Update(d, e) ==
    [k \in DOMAIN d \cup DOMAIN e |-> IF k \in DOMAIN e THEN e[k] ELSE d[k]]

\* isfile, were state.json never found
NoFile(s) == FALSE

\* os.path.isfile('state.json')
isfile(s) == s.file # <<>>

\* requests.post(token_endpoint, data): the request is sent and the
\* endpoint's next answer received
Post(s, data) ==
    [s EXCEPT !.posts = Append(@, data),
              !.answers = Append(@, Head(s.resps)),
              !.resps = Tail(@)]

\* A request for which the frame holds no answer.  After an answer, the
\* endpoint keeps giving its last one, which was without a token, and the
\* session is where it was before the previous request: the calls nest
\* until Python raises RecursionError.  Before any answer, the frame is one
\* set up to learn whether the call sends a request at all (NoAnswer).
Unanswered(s) ==
    [s EXCEPT !.exc = IF s.answers = <<>> THEN "NoAnswer"
                      ELSE "RecursionError"]

\* bottle.redirect(url): the caller's return value
Redirect(s, url) == [s EXCEPT !.ret = "redirect", !.location = url]

\* a route as a URL without parameters
Route(r) == <<r>>

\* `return value` (or the end of a method, value None), unless an exception
\* is on its way up
Return(s, value) == IF s.exc # NoExc THEN s ELSE [s EXCEPT !.ret = value]

(* ----------------------------- the methods ----------------------------- *)
\* token_seconds(): seconds until the current access token expires.  The
\* clock is read for the comparison and, if that finds the token unexpired,
\* again for the subtraction, s.late seconds later.
token_seconds(s) ==
    IF ~Truthy(s.state.access_token) \/ s.now >= s.state.token_expires_at
    THEN 0
    ELSE s.state.token_expires_at - (s.now + s.late)

\* the frame when token_seconds() has returned: the clock stands at the
\* last reading taken
Elapsed(s) ==
    IF ~Truthy(s.state.access_token) \/ s.now >= s.state.token_expires_at
    THEN s
    ELSE [s EXCEPT !.now = @ + s.late]

\* verify_scopes(): records the granted scopes (a mismatch is only printed)
verify_scopes(s, token_scopes) ==
    [s EXCEPT !.state.token_scope = token_scopes]

RECURSIVE state_manager(_, _), token_validation(_, _), token_refresh(_),
          token_save(_, _), logout(_, _)

\* state_manager(action)
state_manager(s, action) ==
    IF action = "init" THEN
        LET s1 == [s EXCEPT !.state = initialized_state] IN
        IF s1.config.cache_state /\ isfile(s1) THEN
            Return(token_validation(
                       [s1 EXCEPT !.state = Update(@, json_loads(s1.file[1]))],
                       NSecondsDefault),
                   "None")
        ELSE IF ~s1.config.cache_state /\ isfile(s1) THEN
            Return([s1 EXCEPT !.file = <<>>], "None")
        ELSE Return(s1, "None")
    ELSE IF action = "save" /\ s.config.cache_state THEN
        Return([s EXCEPT !.file = <<json_dumps(s.state, StateKeys)>>], "None")
    ELSE Return(s, "None")

\* token_validation(nseconds)
token_validation(s, nseconds) ==
    LET s1 == Elapsed(s) IN
    IF token_seconds(s) < nseconds /\ s.config.refresh_enable
    THEN Return(token_refresh(s1), "None")
    ELSE Return(s1, "None")

\* token_refresh()
token_refresh(s) ==
    IF s.resps = <<>> THEN Unanswered(s)
    ELSE LET response == Head(s.resps) IN
         Return(token_save(Post(s, [grant_type |-> "refresh_token",
                                    refresh_token |->
                                        s.state.refresh_token]),
                           response),
                "None")

\* token_save(response)
token_save(s, response) ==
    LET jsondata == response.json IN
    IF "access_token" \notin DOMAIN jsondata THEN
        LET s1 == logout(s, None) IN
        IF s1.exc # NoExc THEN s1 ELSE [s1 EXCEPT !.ret = "False"]
    ELSE
        LET s1 == verify_scopes(s, jsondata.scope) IN
        [s1 EXCEPT !.state.access_token = jsondata.access_token,
                   !.state.loggedin = TRUE,
                   !.state.token_expires_at = s.now + jsondata.expires_in,
                   !.state.refresh_token =
                       IF "refresh_token" \in DOMAIN jsondata
                       THEN jsondata.refresh_token ELSE None,
                   !.ret = "True"]

\* logout(redirect_to)
logout(s, redirect_to) ==
    LET s1 == state_manager(s, "init") IN
    IF s1.exc # NoExc THEN s1
    ELSE IF Truthy(redirect_to) THEN Redirect(s1, Route(redirect_to))
    ELSE [s1 EXCEPT !.ret = "None"]

\* silent_sso()
silent_sso(s) ==
    LET s0 == Elapsed(s) IN
    IF token_seconds(s) > 0 THEN [s0 EXCEPT !.ret = "True"]
    ELSE IF Truthy(s0.state.refresh_token) THEN
        LET s1 == token_refresh(s0) IN
        IF s1.exc # NoExc THEN s1 ELSE [s1 EXCEPT !.ret = "True"]
    ELSE [s0 EXCEPT !.ret = "False"]

\* the authorization URL login() builds
AuthorizationUrl(s) ==
    Url(s.config.auth_endpoint,
        << <<"response_type", "code">>,
           <<"client_id", s.config.client_id>>,
           <<"redirect_uri", s.config.redirect_uri>>,
           <<"scope", Join(s.config.scopes)>>,
           <<"state", s.authstate>>,
           <<"prompt", "select_account">> >>)

\* login(login_redirect); uuid is the value uuid.uuid4() yields
login(s, route, uuid) ==
    LET s0 == IF Truthy(route) THEN [s EXCEPT !.login_redirect = route]
              ELSE s
        s1 == IF s0.config.cache_state THEN silent_sso(s0)
              ELSE [s0 EXCEPT !.ret = "False"]
    IN  IF s1.exc # NoExc THEN s1
        ELSE IF s0.config.cache_state /\ s1.ret = "True"
        THEN Redirect(s1, Route(s1.login_redirect))
        ELSE LET s2 == [s1 EXCEPT !.authstate = uuid]
                 s3 == [s2 EXCEPT !.state.authorization_url =
                                      AuthorizationUrl(s2)]
             IN  Redirect(s3, s3.state.authorization_url)

\* StateMatches, were a callback without a `state` parameter let through
StateMatchesOrAbsent(s, query) ==
    query.state = "" \/ s.authstate = query.state

\* the check of the received state against the one sent
StateMatches(s, query) == s.authstate = query.state

\* ClearAuthstate, were the nonce left in place
KeepAuthstate(s) == s

\* self.authstate = '': clear state to prevent re-use
ClearAuthstate(s) == [s EXCEPT !.authstate = ""]

\* redirect_uri_handler(); query holds bottle.request.query's state and code
\* (a parameter the request lacks reads as '')
redirect_uri_handler(s, query) ==
    IF ~StateMatches(s, query) THEN [s EXCEPT !.exc = "STATE MISMATCH"]
    ELSE IF s.resps = <<>> THEN Unanswered(s)
    ELSE
        LET s1 == ClearAuthstate(s)
            token_response == Head(s1.resps)
            s2 == Post(s1, [grant_type |-> "authorization_code",
                            code |-> query.code])
            s3 == token_save(s2, token_response)
            s4 == IF token_response.ok THEN state_manager(s3, "save")
                  ELSE s3
        IN  IF s3.exc # NoExc THEN s3
            ELSE Redirect(s4, Route(s4.login_redirect))

\* the scopes after __init__'s offline_access adjustment
NormalizeScopes(scopes, refresh_enable) ==
    IF refresh_enable THEN
        IF ~In(RefreshScope, scopes) THEN Append(scopes, RefreshScope)
        ELSE scopes
    ELSE
        IF In(RefreshScope, scopes) THEN Remove(scopes, RefreshScope)
        ELSE scopes

\* the default configuration with the keyword arguments applied
Config(kwargs) ==
    Update([client_id |-> "", client_secret |-> "", redirect_uri |-> "",
            scopes |-> <<>>, cache_state |-> FALSE,
            auth_endpoint |-> AuthEndpoint,
            token_endpoint |-> TokenEndpoint,
            refresh_enable |-> TRUE], kwargs)

\* a frame for a call on the object in its current state, the clock
\* reading t and advancing by `late` seconds between the two reads of each
\* token_seconds() call
Frame(cfg, st, auth, route, f, t, late, resps) ==
    [config |-> cfg, state |-> st, authstate |-> auth,
     login_redirect |-> route, file |-> f, now |-> t, resps |-> resps,
     late |-> late, posts |-> <<>>, answers |-> <<>>, exc |-> NoExc,
     ret |-> "None", location |-> <<>>]

\* GraphSession(**kwargs), with state.json as found on disk
GraphSession(kwargs, f, t, late, resps) ==
    LET s0 == Frame(Config(kwargs), initialized_state, "", "/", f, t, late,
                    resps)
        s1 == state_manager(s0, "init")
    IN  IF s1.exc # NoExc THEN s1
        ELSE [s1 EXCEPT !.authstate = "",
                        !.login_redirect = "/",
                        !.config.scopes =
                            NormalizeScopes(s1.config.scopes,
                                            s1.config.refresh_enable),
                        !.ret = "None"]

(* ------------------------------ the state ------------------------------ *)
\* what the call that has just ended did: its name, the exception it raised (NoExc
\* when it returned), its return value, the redirect target, the requests
\* it sent to the token endpoint with the answers it got, and the `state`
\* query parameter it was given
Outcome(op, s, q) ==
    [op |-> op, exc |-> s.exc,
     ret |-> IF s.exc = NoExc THEN s.ret ELSE "None",
     location |-> IF s.exc = NoExc THEN s.location ELSE <<>>,
     posts |-> s.posts, answers |-> s.answers, query_state |-> q]

\* the constructor has returned: there is an object to call methods on
Constructed == ~(last.op \in {"__init__", "sleep"} /\ last.exc # NoExc)

\* the record when the application has moved on from the call (a failed
\* construction stays on record)
Slept ==
    [op |-> "sleep", exc |-> IF Constructed THEN NoExc ELSE last.exc,
     ret |-> "None", location |-> <<>>, posts |-> <<>>, answers |-> <<>>,
     query_state |-> ""]

\* the application is between two calls
Idle == last.op = "sleep"

\* the object's attributes, the file and the clock after the call, and the
\* record of the call
Commit(op, s, q) ==
    /\ config' = s.config
    /\ state' = s.state
    /\ authstate' = s.authstate
    /\ login_redirect' = s.login_redirect
    /\ file' = s.file
    /\ now' = s.now
    /\ last' = Outcome(op, s, q)

\* The call ended within the time explored, and the clock has advanced
\* during it if it was to (late > 0 is for calls that read it twice).
InTime(s) == s.now <= MaxTime /\ (s.late = 0 \/ s.now > now)

\* a call on the constructed object that ended as frame s, within the time
\* explored
Call(op, s, q) ==
    /\ Constructed
    /\ \E end \in {s} :
         /\ InTime(end)
         /\ Commit(op, end, q)
    /\ UNCHANGED uuids

Current(late, resps) ==
    Frame(config, state, authstate, login_redirect, file, now, late, resps)

\* The answers a call is given: none when it sends no request (s is the
\* call made without answers), else every run out of `runs`.
Answers(s, runs) == IF s.exc = "NoAnswer" THEN runs ELSE {<<>>}

\* the keyword arguments an application passes, asking for `scopes`
Kwargs(scopes) ==
    {[client_id |-> ClientId, client_secret |-> ClientSecret,
      redirect_uri |-> RedirectUri, scopes |-> sc, cache_state |-> c,
      refresh_enable |-> r] :
        sc \in scopes, c \in BOOLEAN, r \in BOOLEAN}

\* A process starts on a machine without state.json.
Start(kwargs) ==
    \E kw \in kwargs :
        LET s == GraphSession(kw, <<>>, 0, 0, <<>>) IN
        /\ config = s.config
        /\ state = s.state
        /\ authstate = s.authstate
        /\ login_redirect = s.login_redirect
        /\ file = s.file
        /\ now = 0
        /\ uuids = 0
        /\ last = Outcome("__init__", s, "")

\* The process is restarted: a new GraphSession is constructed over the
\* state.json the previous one left, from the settings of the previous one
\* with cache_state set anew.
Restart ==
    /\ Idle
    /\ \E c \in BOOLEAN, late \in 0..MaxLate :
         LET kw == [config EXCEPT !.cache_state = c] IN
         \E resps \in Answers(GraphSession(kw, file, now, late, <<>>),
                               RefreshRuns) :
           \E s \in {GraphSession(kw, file, now, late, resps)} :
             /\ InTime(s)
             /\ Commit("__init__", s, "")
             /\ UNCHANGED uuids

Login ==
    /\ Idle
    /\ \E route \in {None}, late \in 0..MaxLate :
         \E resps \in Answers(login(Current(late, <<>>), route, ""),
                               RefreshRuns) :
           /\ Constructed
           /\ \E s \in {login(Current(late, resps), route,
                                Uuid(uuids + 1))} :
                LET generated == s.authstate = Uuid(uuids + 1) IN
                /\ generated => uuids < MaxLogins
                /\ InTime(s)
                /\ Commit("login", s, "")
                /\ uuids' = IF generated THEN uuids + 1 ELSE uuids

Logout ==
    /\ Idle
    /\ \E redirect_to \in Routes \cup {None}, late \in 0..MaxLate :
         \E resps \in Answers(logout(Current(late, <<>>), redirect_to),
                               RefreshRuns) :
           Call("logout",
                logout(Current(late, resps), redirect_to), "")

RedirectUriHandler ==
    /\ Idle
    /\ \E q \in QueryStates, late \in 0..MaxLate :
         LET query == [state |-> q, code |-> AuthCode] IN
         \E resps \in Answers(redirect_uri_handler(Current(late, <<>>), query),
                               CallbackRuns) :
           Call("redirect_uri_handler",
                redirect_uri_handler(Current(late, resps), query), q)

SilentSso ==
    /\ Idle
    /\ \E late \in 0..MaxLate :
         \E resps \in Answers(silent_sso(Current(late, <<>>)), RefreshRuns) :
           Call("silent_sso",
                silent_sso(Current(late, resps)), "")

TokenValidation ==
    /\ Idle
    /\ \E nseconds \in {0, NSecondsDefault}, late \in 0..MaxLate :
         \E resps \in Answers(token_validation(Current(late, <<>>), nseconds),
                               RefreshRuns) :
           Call("token_validation",
                token_validation(Current(late, resps), nseconds), "")

\* state_manager(action) called by the application
StateManager ==
    /\ Idle
    /\ \E action \in {"init", "save"}, late \in 0..MaxLate :
         \E resps \in Answers(state_manager(Current(late, <<>>), action),
                               RefreshRuns) :
           Call("state_manager",
                state_manager(Current(late, resps), action), "")

\* token_refresh() called by the application
TokenRefresh ==
    /\ Idle
    /\ \E late \in 0..MaxLate :
         \E resps \in Answers(token_refresh(Current(late, <<>>)), RefreshRuns) :
           Call("token_refresh",
                token_refresh(Current(late, resps)), "")

\* token_save(response) called by the application with an answer it holds
TokenSave ==
    /\ Idle
    /\ \E response \in Responses, late \in 0..MaxLate :
         \E resps \in Answers(token_save(Current(late, <<>>), response),
                               RefreshRuns) :
           Call("token_save",
                token_save(Current(late, resps), response), "")

\* verify_scopes(token_scopes) called by the application
VerifyScopes ==
    /\ Idle
    /\ \E token_scopes \in {GrantedScope} :
         Call("verify_scopes",
              Return(verify_scopes(Current(0, <<>>), token_scopes), "None"), "")

\* token_seconds() called by the application
TokenSeconds ==
    /\ Idle
    /\ \E late \in 0..MaxLate :
         LET s == Current(late, <<>>) IN
           Call("token_seconds", Return(Elapsed(s), token_seconds(s)), "")

\* the application moves on from the call that has ended
Resume ==
    /\ ~Idle
    /\ last' = Slept
    /\ UNCHANGED <<config, state, authstate, login_redirect, file, now,
                   uuids>>

\* time passes between calls
Tick ==
    /\ Idle
    /\ now < MaxTime
    /\ now' = now + 1
    /\ UNCHANGED <<config, state, authstate, login_redirect, file, uuids,
                   last>>

Init == Start(Kwargs({AppScopes}))

Next ==
    \/ Restart
    \/ Login
    \/ Logout
    \/ RedirectUriHandler
    \/ SilentSso
    \/ TokenValidation
    \/ StateManager
    \/ TokenRefresh
    \/ TokenSave
    \/ VerifyScopes
    \/ TokenSeconds
    \/ Resume
    \/ Tick

Spec == Init /\ [][Next]_vars

(* The constructor's treatment of the scopes, over every list of scopes:   *)
(* sessions constructed with any list, logging in and out.                 *)
InitScopes == Start(Kwargs(ScopeLists))

Construct ==
    /\ Idle
    /\ \E kw \in Kwargs(ScopeLists), late \in 0..MaxLate :
         \E resps \in Answers(GraphSession(kw, file, now, late, <<>>),
                               RefreshRuns) :
           \E s \in {GraphSession(kw, file, now, late, resps)} :
             /\ InTime(s)
             /\ Commit("__init__", s, "")
             /\ UNCHANGED uuids

NextScopes ==
    \/ Construct
    \/ Login
    \/ Logout
    \/ Resume
    \/ Tick

SpecScopes == InitScopes /\ [][NextScopes]_vars

(* The clock during a call: sessions logging in, with token_seconds()      *)
(* called while the clock advances between its two reads (and at no other  *)
(* moment).                                                                *)
NextClock ==
    \/ Login
    \/ RedirectUriHandler
    \/ TokenSeconds
    \/ Resume

SpecClock == Init /\ [][NextClock]_vars

(* ------------------------------ the claims ----------------------------- *)
\* the operations of a session in use: construction and the methods the
\* application's routes call
Operations == {"__init__", "login", "logout", "redirect_uri_handler",
               "silent_sso", "token_validation"}

\* this step is a call of one of the operations, and of `op`
AnyCall == last'.op \in Operations
Called(op) == last'.op = op

\* the fields of the session that make up the login
DurableKeys == {"access_token", "refresh_token", "token_expires_at",
                "token_scope", "loggedin"}
Session(st) == [k \in DurableKeys |-> st[k]]

\* the logged-out default of the session
LoggedOutDefault(st) == Session(st) = Session(initialized_state)

\* token_seconds() of a session st at time t
SecondsLeft(st, t) == token_seconds([state |-> st, now |-> t, late |-> 0])

\* the answer lacks an access token
Refused(response) == "access_token" \notin DOMAIN response.json

\* the nonces login() has issued
Issued == {Uuid(n) : n \in 1..uuids}

\* C1: a callback whose `state` differs from the stored nonce raises the
\* state-mismatch error, sends nothing to the token endpoint and leaves the
\* session state and the persisted record as they were.
C1_MismatchIsFatalAndInert ==
    [][(Called("redirect_uri_handler") /\ last'.query_state # authstate)
        => /\ last'.exc = "STATE MISMATCH"
           /\ last'.posts = <<>>
           /\ state' = state
           /\ file' = file]_vars

\* a callback carrying a wrong nonce was refused while a login was pending
C1_Witness ==
    /\ last.op = "redirect_uri_handler"
    /\ last.exc = "STATE MISMATCH"
    /\ last.query_state # ""
    /\ authstate \in Issued

\* C2: the nonce is single-use.  An accepted callback leaves no nonce
\* pending, whatever becomes of its token exchange; while none is pending
\* every callback that carries a nonce is refused and sends nothing; and
\* only login() makes a nonce pending again.
C2_NonceIsSingleUse ==
    [][/\ (Called("redirect_uri_handler") /\ last'.exc # "STATE MISMATCH")
           => authstate' = ""
       /\ (Called("redirect_uri_handler") /\ authstate = ""
              /\ last'.query_state # "")
           => (last'.exc = "STATE MISMATCH" /\ last'.posts = <<>>)
       /\ (authstate = "" /\ authstate' # "")
           => (Called("login") /\ authstate' \notin Issued)]_vars

\* the nonce of the login that logged the session in was presented again
\* and refused
C2_Witness ==
    /\ last.op = "redirect_uri_handler"
    /\ last.exc = "STATE MISMATCH"
    /\ last.query_state \in Issued
    /\ last.query_state = UrlParam(state.authorization_url, "state")
    /\ authstate = ""
    /\ state.loggedin

\* C3: when an answer of the token endpoint lacks access_token, the session
\* is logged out once the call returns: no access token, logged-in flag
\* false, token_seconds() = 0.
C3_RefusalLogsOut ==
    [][(AnyCall /\ last'.exc = NoExc
          /\ \E i \in 1..Len(last'.answers) : Refused(last'.answers[i]))
        => /\ state'.access_token = None
           /\ ~state'.loggedin
           /\ SecondsLeft(state', now') = 0]_vars

\* C4: with caching enabled, a callback whose token answer lacks
\* access_token writes nothing to the persisted record.
C4_RefusedCallbackWritesNothing ==
    [][(Called("redirect_uri_handler") /\ config.cache_state
          /\ last'.answers # <<>> /\ Refused(last'.answers[1]))
        => file' = file]_vars

\* C5: after logout() returns, the session is the logged-out default and
\* the persisted record is gone.
C5_LogoutResetsAndRemoves ==
    [][(Called("logout") /\ last'.exc = NoExc)
        => (LoggedOutDefault(state') /\ file' = <<>>)]_vars

\* C6: a token answer without refresh_token, saved over a session that
\* holds a refresh token, leaves that refresh token in place.
C6_RefreshTokenSurvivesOmission ==
    [][(last'.op \in {"redirect_uri_handler", "silent_sso",
                       "token_validation", "login", "token_refresh"}
          /\ Len(last'.answers) = 1
          /\ ~Refused(last'.answers[1])
          /\ "refresh_token" \notin DOMAIN last'.answers[1].json
          /\ Truthy(state.refresh_token))
        => state'.refresh_token = state.refresh_token]_vars

\* C7: a persisted record has exactly the fields access_token,
\* refresh_token, token_expires_at, token_scope and loggedin, and none of
\* its values is or embeds a nonce issued by login().
C7_PersistedRecordShape ==
    file # <<>> =>
        LET record == json_loads(file[1]) IN
        /\ DOMAIN record = DurableKeys
        /\ \A k \in DOMAIN record \cap {"access_token", "refresh_token",
                                         "token_scope"} :
               record[k] \notin Issued
        /\ "authorization_url" \in DOMAIN record
               => UrlParam(record.authorization_url, "state") \notin Issued


\* the session of the current state persisted by state_manager('save'), and
\* a GraphSession constructed at time t over the file that leaves
Persisted == state_manager(Current(0, <<>>), "save").file
Restored(t, late, resps) == GraphSession(config, Persisted, t, late, resps)
\* token_seconds() of the session restored at time t, the clock advancing
\* by `late` between its two reads
SecondsAtRestore(t, late) ==
    token_seconds([state |-> state, now |-> t, late |-> late])

\* C8 as claimed: with caching enabled, persisting any session state and
\* restoring it, then or later, yields a session with the same
\* access_token, refresh_token, token_expires_at, token_scope and loggedin,
\* and no pending nonce.
C8_RoundTripAlways ==
    (Constructed /\ config.cache_state) =>
        \A t \in now..MaxTime :
            \A resps \in Answers(Restored(t, 0, <<>>), RefreshRuns) :
                LET r == Restored(t, 0, resps) IN
                /\ r.exc = NoExc
                /\ Session(r.state) = Session(state)
                /\ r.authstate = ""

\* C8, amended: the same, for the session states for which token_seconds()
\* returns at least 5 during the restore, and for all of them when
\* refresh_enable is false; the restore then sends no request.
C8_RoundTripWithoutRefresh ==
    (Constructed /\ config.cache_state) =>
        \A t \in now..MaxTime, late \in 0..MaxLate :
            (SecondsAtRestore(t, late) >= NSecondsDefault
                \/ ~config.refresh_enable) =>
            \A resps \in Answers(Restored(t, late, <<>>), RefreshRuns) :
                LET r == Restored(t, late, resps) IN
                /\ r.exc = NoExc
                /\ r.posts = <<>>
                /\ Session(r.state) = Session(state)
                /\ r.authstate = ""

\* a restart restored a logged-in session from the record a callback wrote
C8_Witness ==
    /\ last.op = "__init__"
    /\ last.exc = NoExc
    /\ last.posts = <<>>
    /\ config.cache_state
    /\ file # <<>>
    /\ state.loggedin
    /\ Truthy(state.refresh_token)
    /\ Session(state) = Session(json_loads(file[1]))

\* C9: after construction the configured scopes contain offline_access if
\* refresh_enable is true and contain no offline_access if it is false,
\* whatever list of scopes was passed.
C9_ScopesFollowRefreshEnable ==
    Constructed =>
        /\ config.refresh_enable => In(RefreshScope, config.scopes)
        /\ ~config.refresh_enable => ~In(RefreshScope, config.scopes)

\* C10: silent_sso() returns True exactly when the access token has more
\* than 0 seconds left (by the clock as the call last read it) or a refresh
\* token is present, and False otherwise; with more than 0 seconds left it
\* sends no request and changes nothing, and when it returns False it has
\* sent no request.
C10_SilentSsoResult ==
    [][Called("silent_sso") =>
        LET valid == SecondsLeft(state, now') > 0
            refreshable == Truthy(state.refresh_token)
        IN  /\ (last'.ret = "True") <=> (valid \/ refreshable)
            /\ (last'.ret = "False") <=> ~(valid \/ refreshable)
            /\ valid => (last'.posts = <<>> /\ state' = state
                            /\ file' = file /\ authstate' = authstate)
            /\ last'.ret = "False" => last'.posts = <<>>]_vars

\* C11: silent_sso() returns True only when the session holds an access
\* token that is present and unexpired at that moment; and whenever login()
\* with caching enabled redirects straight to the target route, the session
\* is logged in with such a token.
C11_SilentSsoTrueMeansValidToken ==
    [][/\ (Called("silent_sso") /\ last'.ret = "True")
           => SecondsLeft(state', now') > 0
       /\ (Called("login") /\ config.cache_state
              /\ last'.ret = "redirect"
              /\ last'.location = Route(login_redirect'))
           => (state'.loggedin /\ SecondsLeft(state', now') > 0)]_vars

\* C12: in every reachable state the logged-in flag is true exactly when an
\* access token is present and the clock is before token_expires_at.
C12_LoggedinIsDerived ==
    Constructed =>
        (state.loggedin <=>
            (Truthy(state.access_token) /\ now < state.token_expires_at))

\* the answer a call ended with, when it ended with a saved token
SavedAnswer(outcome) == outcome.answers[Len(outcome.answers)]
EndedWithSave(outcome) ==
    /\ outcome.exc = NoExc
    /\ outcome.answers # <<>>
    /\ ~Refused(SavedAnswer(outcome))

\* C13: every token_seconds() call returns a non-negative integer, and 0
\* when no access token is present or the clock is at or past
\* token_expires_at when it returns; at the instant a token answer with
\* expires_in = N has been saved it is N, and it is 0 from the expiry
\* instant on.
C13_TokenSeconds ==
    [][/\ last'.op = "token_seconds"
           => /\ last'.ret \in Nat
              /\ (~Truthy(state'.access_token)
                    \/ now' >= state'.token_expires_at)
                  => last'.ret = 0
       /\ (AnyCall /\ EndedWithSave(last'))
           => LET N == SavedAnswer(last').json.expires_in IN
              /\ SecondsLeft(state', now') = N
              /\ \A t \in now'..(now' + N + 1) :
                    SecondsLeft(state', t) =
                        IF t >= now' + N THEN 0 ELSE now' + N - t]_vars

\* C14: with caching disabled, no persisted record exists in any state
\* after construction: construction deletes the one it finds and no
\* operation writes one.
C14_NoCacheNoRecord ==
    (Constructed /\ ~config.cache_state) => file = <<>>

\* with caching disabled a callback logged the session in and no record
\* was written
C14_Witness ==
    /\ ~config.cache_state
    /\ last.op = "redirect_uri_handler"
    /\ last.exc = NoExc
    /\ state.loggedin
    /\ file = <<>>

\* C15: every call (construction, logout, callback, silent_sso,
\* token_validation, login) sends at most one request to the token endpoint
\* and terminates.
C15_OneRequestPerCall ==
    [][AnyCall
        => (Len(last'.posts) <= 1 /\ last'.exc # "RecursionError")]_vars

\* C16: in every reachable state, token_validation(n) sends exactly one
\* refresh-token request and returns when token_seconds() < n and
\* refresh_enable is true, and otherwise sends nothing and leaves the
\* session state and the persisted record as they are.
C16_TokenValidationEffect ==
    Constructed =>
        \A n \in {0, NSecondsDefault} :
         \A late \in 0..MaxLate :
          \A resps \in Answers(token_validation(Current(late, <<>>), n),
                                RefreshRuns) :
            LET r == token_validation(Current(late, resps), n) IN
            IF token_seconds(Current(late, <<>>)) < n
                  /\ config.refresh_enable
            THEN /\ r.exc = NoExc
                 /\ Len(r.posts) = 1
                 /\ r.posts[1].grant_type = "refresh_token"
            ELSE /\ r.exc = NoExc
                 /\ r.posts = <<>>
                 /\ r.state = state
                 /\ r.file = file

\* C17: a login() that does not take the silent-SSO path (caching disabled,
\* or no token with time left by the clock as the call last read it and no
\* refresh token) sends no token request, makes a
\* nonce never issued before the pending one, and redirects to the
\* authorization URL carrying response_type=code, the client id, the
\* redirect URI, the space-joined scopes and that nonce as `state`; a
\* callback carrying the nonce of an earlier login() is then refused.
C17_LoginIssuesFreshNonce ==
    [][/\ (Called("login")
             /\ (~config.cache_state
                   \/ (SecondsLeft(state, now') = 0
                         /\ ~Truthy(state.refresh_token))))
           => /\ last'.exc = NoExc
              /\ last'.posts = <<>>
              /\ authstate' \notin Issued \cup {"", authstate}
              /\ last'.ret = "redirect"
              /\ last'.location = state'.authorization_url
              /\ last'.location[1] = config.auth_endpoint
              /\ UrlParam(last'.location, "response_type") = "code"
              /\ UrlParam(last'.location, "client_id") = config.client_id
              /\ UrlParam(last'.location, "redirect_uri")
                    = config.redirect_uri
              /\ UrlParam(last'.location, "scope") = Join(config.scopes)
              /\ UrlParam(last'.location, "state") = authstate'
       /\ (Called("redirect_uri_handler")
             /\ last'.query_state \in Issued
             /\ last'.query_state # authstate)
           => (last'.exc = "STATE MISMATCH" /\ last'.posts = <<>>)]_vars

\* a second login() replaced the pending nonce, and the callback carrying
\* the first login()'s nonce was refused
C17_Witness ==
    /\ last.op = "redirect_uri_handler"
    /\ last.exc = "STATE MISMATCH"
    /\ last.query_state = Uuid(1)
    /\ authstate = Uuid(2)
    /\ UrlParam(state.authorization_url, "state") = Uuid(2)
    /\ state.access_token = None

\* C18: a callback posts the authorization code only when a nonce issued
\* by login() is pending and the callback's `state` equals it.
C18_CodePostedOnlyForPendingLogin ==
    [][(Called("redirect_uri_handler") /\ last'.posts # <<>>)
        => (authstate \in Issued /\ last'.query_state = authstate)]_vars

\* C19: every refresh-token request a call sends carries a refresh token
\* (never None).
C19_RefreshOnlyWithRefreshToken ==
    [][AnyCall
        => \A i \in 1..Len(last'.posts) :
              last'.posts[i].grant_type = "refresh_token"
                  => Truthy(last'.posts[i].refresh_token)]_vars

\* C20: with caching enabled, after a call that ended with a saved token
\* the persisted record exists and its access_token, refresh_token,
\* token_expires_at, token_scope and loggedin equal the session's.
C20_RecordFollowsSession ==
    [][(AnyCall /\ config'.cache_state /\ EndedWithSave(last'))
        => /\ file' # <<>>
           /\ Session(json_loads(file'[1])) = Session(state')]_vars

====
